---- MODULE Spec2Model ----
(***************************************************************************)
(* Model of the Virtual Pull-Up app (Empire/01_VirtualPullUp/app.py):      *)
(* Mem0Cache (fact cache with timestamp eviction) and AIProviderRotation   *)
(* (rate-limited provider selection with a fall-through query chain).      *)
(*                                                                         *)
(* Claim strings are sequences of one-character strings.  datetime.now()   *)
(* is the variable now: it never decreases and two calls may read the same *)
(* value (the clock has microsecond resolution).                           *)
(***************************************************************************)
EXTENDS Integers, Sequences, FiniteSets, TLC

VARIABLES max_size, cache, access_times,
          providers, current_index, request_counts, rate_limits, reset_time,
          api_key, now, lru_order, window_log, sent_counts, threads,
          pending, setters, active_sessions, ended_log, queues, next_call,
          active_calls, ended_calls, businesses, chat_sessions, chat_queue,
          last

cacheVars == <<max_size, cache, access_times, lru_order, setters>>
rotVars == <<providers, current_index, request_counts, rate_limits, reset_time,
             api_key, window_log, sent_counts, threads, pending>>
sessVars == <<active_sessions, ended_log>>
queueVars == <<queues, next_call>>
callVars == <<active_calls, ended_calls, businesses>>
chatVars == <<chat_sessions, chat_queue>>
appVars == <<sessVars, queueVars, callVars, chatVars>>
vars == <<max_size, cache, access_times, providers, current_index,
          request_counts, rate_limits, reset_time, api_key, now, lru_order,
          window_log, sent_counts, threads, pending, setters, active_sessions,
          ended_log, queues, next_call, active_calls, ended_calls,
          businesses, chat_sessions, chat_queue, last>>

(* ------------------------------ bounds --------------------------------- *)
MaxSize == 2
MaxLen == 2
MaxNow == 2
MaxLimit == 2
MaxCalls == 4
MaxRotNow == 130000000
NumThreads == 2
MaxSets == 2
MaxStarts == 3
MaxQueued == 3
MaxActive == 2
MaxTranscript == 5
MaxChats == 2
MaxChatQueue == 3

\* program constants; the clock unit is the microsecond datetime resolves
WindowMicros == 60000000
DefaultMaxSize == 10000
GeminiLimit == 60
GrokLimit == 100
\* float("inf")
Infinity == -1

Alphabet == {"a", "A", " "}
Facts == {"F1", "F2"}
None == "None"

RECURSIVE SeqsUpTo(_)
SeqsUpTo(n) ==
    IF n = 0 THEN {<<>>}
    ELSE LET shorter == SeqsUpTo(n - 1)
         IN shorter \cup {Append(s, c) : s \in {x \in shorter : Len(x) = n - 1},
                                         c \in Alphabet}

Claims == SeqsUpTo(MaxLen)

(* ------------------------- Mem0Cache._generate_key --------------------- *)
\* str.lower(), one character
LowerChar(c) == IF c = "A" THEN "a" ELSE c

\* str.lower()
Lower(s) == [i \in 1..Len(s) |-> LowerChar(s[i])]

IsSpace(c) == c = " "

\* str.strip(): drop the leading and the trailing whitespace
Strip(s) ==
    LET nonsp == {i \in 1..Len(s) : ~IsSpace(s[i])}
    IN IF nonsp = {} THEN <<>>
       ELSE LET lo == CHOOSE i \in nonsp : \A j \in nonsp : i <= j
                hi == CHOOSE i \in nonsp : \A j \in nonsp : j <= i
            IN SubSeq(s, lo, hi)

Normalize(claim) == Strip(Lower(claim))

\* hashlib.md5(text.encode()).hexdigest(): the digests of every string over
\* Alphabet of length at most 3
MD5(s) ==
    CASE s = <<>> -> "d41d8cd98f00b204e9800998ecf8427e"
      [] s = <<"a">> -> "0cc175b9c0f1b6a831c399e269772661"
      [] s = <<"A">> -> "7fc56270e7a70fa81a5935b72eacbe29"
      [] s = <<" ">> -> "7215ee9c7d9dc229d2921a40e899ec5f"
      [] s = <<"a", "a">> -> "4124bc0a9335c27f086f24ba207a4912"
      [] s = <<"a", "A">> -> "8c80b057bc0b599b48cbd144558aeada"
      [] s = <<"a", " ">> -> "99020cb24bd13238d907c65cc2b57c03"
      [] s = <<"A", "a">> -> "98568d540134639be4655198a36614a4"
      [] s = <<"A", "A">> -> "3b98e2dffc6cb06a89dcb0d5c60a0206"
      [] s = <<"A", " ">> -> "6743b9fcc57cf1b169fb4ef6c7a955d2"
      [] s = <<" ", "a">> -> "952988da97fbd8f2ea65990c03eac425"
      [] s = <<" ", "A">> -> "4a1f10599d93d68b762e897cc09870a1"
      [] s = <<" ", " ">> -> "23b58def11b45727d3351702515f86af"
      [] s = <<"a", "a", "a">> -> "47bce5c74f589f4867dbd57e9ca9f808"
      [] s = <<"a", "a", "A">> -> "d90b8669088560e89406149fb1b28c5f"
      [] s = <<"a", "a", " ">> -> "e11035d6234c2cc8830e77a09d896b3a"
      [] s = <<"a", "A", "a">> -> "53d7b487157f7a9f3139a6ec33e7859c"
      [] s = <<"a", "A", "A">> -> "e35ea071fda4a7c985e24e1589a9d57e"
      [] s = <<"a", "A", " ">> -> "a62c6c4848d7ed504bf4d87d75fc3245"
      [] s = <<"a", " ", "a">> -> "1bbda9b94de9eafe906b75b30834a8b0"
      [] s = <<"a", " ", "A">> -> "5c935c3cc4c0ccb2b686c95ebd584d67"
      [] s = <<"a", " ", " ">> -> "d4ac0334c4130de05b4a37a87590ccc4"
      [] s = <<"A", "a", "a">> -> "e4acce14c4baf96fec3017c7409504ce"
      [] s = <<"A", "a", "A">> -> "b92ee84beb8c24b6cd0e8dba0b3b8844"
      [] s = <<"A", "a", " ">> -> "f1cd0b1151fe69b725642226d41903d4"
      [] s = <<"A", "A", "a">> -> "81bd8770ca6ef05418cc5df8b1bc1d83"
      [] s = <<"A", "A", "A">> -> "e1faffb3e614e6c2fba74296962386b7"
      [] s = <<"A", "A", " ">> -> "97fb74f319e6584493aa365f09dcdd83"
      [] s = <<"A", " ", "a">> -> "3680b211590c1fa3f3d46c2c36c30073"
      [] s = <<"A", " ", "A">> -> "140c919096c6c41140f27ca222290f87"
      [] s = <<"A", " ", " ">> -> "011dcd61f6d5e3132b888110a8b2fc34"
      [] s = <<" ", "a", "a">> -> "eb68d7ce4177e4cb70c745c753863155"
      [] s = <<" ", "a", "A">> -> "87cfe635de470fc4cc0998ad968a2481"
      [] s = <<" ", "a", " ">> -> "e49736f09a17efd3daec360132426f43"
      [] s = <<" ", "A", "a">> -> "073f5bf7966b0f46f2c66a6fa76e7842"
      [] s = <<" ", "A", "A">> -> "edc914c954ef73c7cfc15e4a78a43486"
      [] s = <<" ", "A", " ">> -> "951196ca354c5c72b8356494f97c3b5d"
      [] s = <<" ", " ", "a">> -> "78b7904829df3cb519e2476e9dae785d"
      [] s = <<" ", " ", "A">> -> "1ee35543227781c739e656cb8cc8ef1e"
      [] s = <<" ", " ", " ">> -> "628631f07321b22d8c176c200c855e1b"

\* the key without the strip() of line 110
GenerateKeyNoStrip(claim) == MD5(Lower(claim))

\* _generate_key, computed once for every claim of the model
KeyTable == [claim \in Claims |-> MD5(Normalize(claim))]

GenerateKey(claim) == KeyTable[claim]

(* ------------------ Python dict, in insertion order -------------------- *)
\* access_times is a sequence of [k, t] entries in dict insertion order
DictKeys(d) == {d[i].k : i \in DOMAIN d}

DictIndex(d, k) == CHOOSE i \in DOMAIN d : d[i].k = k

\* d[k] = t: an existing key keeps its position, a new key goes last
DictSet(d, k, t) ==
    IF k \in DictKeys(d) THEN [d EXCEPT ![DictIndex(d, k)].t = t]
    ELSE Append(d, [k |-> k, t |-> t])

\* del d[k]
DictDel(d, k) == SelectSeq(d, LAMBDA e : e.k # k)

\* min(d, key=d.get): the first key, in iteration order, with the least value
MinKey(d) ==
    LET i == CHOOSE i \in DOMAIN d :
                 /\ \A j \in DOMAIN d : d[i].t <= d[j].t
                 /\ \A j \in 1..(i - 1) : d[j].t > d[i].t
    IN d[i].k

\* self.cache[key] = fact
CachePut(c, k, f) == [x \in (DOMAIN c) \cup {k} |-> IF x = k THEN f ELSE c[x]]

\* del self.cache[key]
CacheDel(c, k) == [x \in (DOMAIN c) \ {k} |-> c[x]]

EmptyCache == [x \in {} |-> None]

(* ------------------------------ Mem0Cache ------------------------------ *)
\* _evict_oldest without line 135: the access time of the victim stays
EvictOldestCacheOnly(c, a) ==
    IF a = <<>> THEN [cache |-> c, access_times |-> a]
    ELSE LET oldest_key == MinKey(a)
         IN [cache |-> CacheDel(c, oldest_key), access_times |-> a]

\* _evict_oldest on the pair (cache, access_times)
EvictOldest(c, a) ==
    IF a = <<>> THEN [cache |-> c, access_times |-> a]
    ELSE LET oldest_key == MinKey(a)
         IN [cache |-> CacheDel(c, oldest_key),
             access_times |-> DictDel(a, oldest_key)]

\* the capacity test of set
AtCapacity(c) == Cardinality(DOMAIN c) >= max_size

\* a set that stores under the digest of the claim as it was typed
SetResultRawKey(c, a, claim, fact, t) ==
    LET e == IF AtCapacity(c) THEN EvictOldest(c, a)
             ELSE [cache |-> c, access_times |-> a]
        key == GenerateKeyNoStrip(claim)
    IN [cache |-> CachePut(e.cache, key, fact),
        access_times |-> DictSet(e.access_times, key, t)]

\* history: the key a set evicts from (c, a), None when it evicts nothing
Evicted(c, a) ==
    IF AtCapacity(c) /\ a # <<>> THEN MinKey(a) ELSE None

\* the state of (cache, access_times) after set(claim, fact) at time t
SetResult(c, a, claim, fact, t) ==
    LET e == IF AtCapacity(c) THEN EvictOldest(c, a)
             ELSE [cache |-> c, access_times |-> a]
        key == GenerateKey(claim)
    IN [cache |-> CachePut(e.cache, key, fact),
        access_times |-> DictSet(e.access_times, key, t)]

\* the value get(claim) returns
GetReturn(c, claim) ==
    LET key == GenerateKey(claim)
    IN IF key \in DOMAIN c THEN c[key] ELSE None

\* history: the cached keys from least to most recently accessed
Touch(order, k) == Append(SelectSeq(order, LAMBDA x : x # k), k)

NoCall == [op |-> "init", arg |-> <<>>, val |-> None, ret |-> None,
           provider |-> None, reset |-> FALSE,
           calls |-> <<>>, sent |-> <<>>, raised |-> FALSE, hit |-> FALSE,
           ends |-> <<>>, evicted |-> None]

\* a thread outside set; n counts the calls of set it has made, oldest_key
\* and key are the locals of lines 132 and 125
NoSet == [pc |-> "idle", n |-> 0, claim |-> <<>>, fact |-> None,
          oldest_key |-> None, key |-> None, error |-> None]

Get(claim) ==
    LET key == GenerateKey(claim)
    IN /\ IF key \in DOMAIN cache
          THEN /\ access_times' = DictSet(access_times, key, now)
               /\ lru_order' = Touch(lru_order, key)
          ELSE UNCHANGED <<access_times, lru_order>>
       /\ last' = [NoCall EXCEPT !.op = "get", !.arg = claim,
                                 !.ret = GetReturn(cache, claim)]
       /\ UNCHANGED <<max_size, cache, now, setters>>
       /\ UNCHANGED <<rotVars, appVars>>

Set(claim, fact) ==
    LET r == SetResult(cache, access_times, claim, fact, now)
    IN /\ cache' = r.cache
       /\ access_times' = r.access_times
       /\ lru_order' = SelectSeq(Touch(lru_order, GenerateKey(claim)),
                                 LAMBDA x : x \in DOMAIN r.cache)
       /\ last' = [NoCall EXCEPT !.op = "set", !.arg = claim, !.val = fact,
                                 !.evicted = Evicted(cache, access_times)]
       /\ UNCHANGED <<max_size, now, setters>>
       /\ UNCHANGED <<rotVars, appVars>>

\* time passes between two calls of datetime.now()
Tick(d, bound) ==
    /\ now + d <= bound
    /\ now' = now + d
    /\ UNCHANGED <<cacheVars, rotVars, appVars, last>>

(* ------------------- set, one statement at a time ---------------------- *)
\* what the statements of set leave alone
SetFrame == UNCHANGED <<max_size, now, rotVars, appVars, last>>

\* thread t goes to pc
Goto(t, pc) == [setters EXCEPT ![t].pc = pc]

\* thread t leaves set with the exception error
Raise(t, error) == [setters EXCEPT ![t].pc = "raised", ![t].error = error]

\* line 121: a thread calls set(claim, fact)
SetCall(t, claim, fact) ==
    /\ setters[t].pc = "idle"
    /\ setters[t].n < MaxSets
    /\ setters' = [setters EXCEPT ![t] =
                      [NoSet EXCEPT !.pc = "capacity", !.n = setters[t].n + 1,
                                    !.claim = claim, !.fact = fact]]
    /\ UNCHANGED <<cache, access_times, lru_order>>
    /\ SetFrame

\* line 123: if len(self.cache) >= self.max_size
SetCapacity(t) ==
    /\ setters[t].pc = "capacity"
    /\ setters' = Goto(t, IF AtCapacity(cache) THEN "empty" ELSE "store")
    /\ UNCHANGED <<cache, access_times, lru_order>>
    /\ SetFrame

\* line 131: if not self.access_times: return
EvictEmpty(t) ==
    /\ setters[t].pc = "empty"
    /\ setters' = Goto(t, IF access_times = <<>> THEN "store" ELSE "min")
    /\ UNCHANGED <<cache, access_times, lru_order>>
    /\ SetFrame

\* line 133: oldest_key = min(...); min of an empty dict raises ValueError
EvictMin(t) ==
    /\ setters[t].pc = "min"
    /\ setters' = IF access_times = <<>> THEN Raise(t, "ValueError")
                  ELSE [setters EXCEPT ![t].pc = "del_cache",
                                       ![t].oldest_key = MinKey(access_times)]
    /\ UNCHANGED <<cache, access_times, lru_order>>
    /\ SetFrame

\* line 134: del self.cache[oldest_key]; a missing key raises KeyError
EvictDelCache(t) ==
    LET oldest_key == setters[t].oldest_key
    IN /\ setters[t].pc = "del_cache"
       /\ IF oldest_key \in DOMAIN cache
          THEN /\ cache' = CacheDel(cache, oldest_key)
               /\ lru_order' = SelectSeq(lru_order, LAMBDA x : x # oldest_key)
               /\ setters' = Goto(t, "del_times")
          ELSE /\ setters' = Raise(t, "KeyError")
               /\ UNCHANGED <<cache, lru_order>>
       /\ UNCHANGED access_times
       /\ SetFrame

\* line 135: del self.access_times[oldest_key]
EvictDelTimes(t) ==
    LET oldest_key == setters[t].oldest_key
    IN /\ setters[t].pc = "del_times"
       /\ IF oldest_key \in DictKeys(access_times)
          THEN /\ access_times' = DictDel(access_times, oldest_key)
               /\ setters' = Goto(t, "store")
          ELSE /\ setters' = Raise(t, "KeyError")
               /\ UNCHANGED access_times
       /\ UNCHANGED <<cache, lru_order>>
       /\ SetFrame

\* lines 125-126: key = self._generate_key(claim); self.cache[key] = fact
SetStore(t) ==
    LET key == GenerateKey(setters[t].claim)
    IN /\ setters[t].pc = "store"
       /\ cache' = CachePut(cache, key, setters[t].fact)
       /\ setters' = [setters EXCEPT ![t].pc = "stamp", ![t].key = key]
       /\ UNCHANGED <<access_times, lru_order>>
       /\ SetFrame

\* line 127: self.access_times[key] = datetime.now(), and set returns
SetStamp(t) ==
    /\ setters[t].pc = "stamp"
    /\ access_times' = DictSet(access_times, setters[t].key, now)
    /\ lru_order' = Touch(lru_order, setters[t].key)
    /\ setters' = [setters EXCEPT ![t] = [NoSet EXCEPT !.n = setters[t].n]]
    /\ UNCHANGED cache
    /\ SetFrame

(* -------------------------- AIProviderRotation ------------------------- *)
Remote == {"gemini", "grok"}

Range(s) == {s[i] : i \in DOMAIN s}

\* count < limit, the limit possibly float("inf")
Lt(count, limit) == limit = Infinity \/ count < limit

\* _reset_if_needed with the window twice as long
ResetIfNeededLate(counts, rt, t) ==
    IF t - rt > 2 * WindowMicros
    THEN [request_counts |-> [p \in Range(providers) |-> 0],
          reset_time |-> t, reset |-> TRUE]
    ELSE [request_counts |-> counts, reset_time |-> rt, reset |-> FALSE]

\* _reset_if_needed moving the window start one window ahead
ResetIfNeededGrid(counts, rt, t) ==
    IF t - rt > WindowMicros
    THEN [request_counts |-> [p \in Range(providers) |-> 0],
          reset_time |-> rt + WindowMicros, reset |-> TRUE]
    ELSE [request_counts |-> counts, reset_time |-> rt, reset |-> FALSE]

\* _reset_if_needed at time t
ResetIfNeeded(counts, rt, t) ==
    IF t - rt > WindowMicros
    THEN [request_counts |-> [p \in Range(providers) |-> 0],
          reset_time |-> t, reset |-> TRUE]
    ELSE [request_counts |-> counts, reset_time |-> rt, reset |-> FALSE]

\* the test of line 183 with <= for <
HasBudgetInclusive(counts, provider) ==
    rate_limits[provider] = Infinity \/ counts[provider] <= rate_limits[provider]

\* the test of line 183
HasBudget(counts, provider) == Lt(counts[provider], rate_limits[provider])

\* the loop of get_provider charging the provider it skips
RECURSIVE ScanCharging(_, _, _)
ScanCharging(idx, left, counts) ==
    IF left = 0
    THEN [ret |-> "local", current_index |-> idx, request_counts |-> counts]
    ELSE LET provider == providers[idx + 1]
         IN IF HasBudget(counts, provider)
            THEN [ret |-> provider, current_index |-> idx,
                  request_counts |->
                      [counts EXCEPT ![provider] = counts[provider] + 1]]
            ELSE ScanCharging((idx + 1) % Len(providers), left - 1,
                              [counts EXCEPT ![provider] = counts[provider] + 1])

\* the loop of get_provider moving the index on after a grant, without
\* wrapping
RECURSIVE ScanMovingOn(_, _, _)
ScanMovingOn(idx, left, counts) ==
    IF left = 0
    THEN [ret |-> "local", current_index |-> idx, request_counts |-> counts]
    ELSE LET provider == providers[idx + 1]
         IN IF HasBudget(counts, provider)
            THEN [ret |-> provider, current_index |-> idx + 1,
                  request_counts |->
                      [counts EXCEPT ![provider] = counts[provider] + 1]]
            ELSE ScanMovingOn((idx + 1) % Len(providers), left - 1, counts)

\* the loop of get_provider with left iterations to go
RECURSIVE Scan(_, _, _)
Scan(idx, left, counts) ==
    IF left = 0
    THEN [ret |-> "local", current_index |-> idx, request_counts |-> counts]
    ELSE LET provider == providers[idx + 1]
         IN IF HasBudget(counts, provider)
            THEN [ret |-> provider, current_index |-> idx,
                  request_counts |->
                      [counts EXCEPT ![provider] = counts[provider] + 1]]
            ELSE Scan((idx + 1) % Len(providers), left - 1, counts)

\* get_provider at time now: the provider returned and the state it leaves
GetProviderResult ==
    LET r == ResetIfNeeded(request_counts, reset_time, now)
        s == Scan(current_index, Len(providers), r.request_counts)
    IN [ret |-> s.ret, current_index |-> s.current_index,
        request_counts |-> s.request_counts, reset_time |-> r.reset_time,
        reset |-> r.reset]

\* the state change of one get_provider call, with the history of the window
Rotate(g) ==
    /\ Len(window_log) < MaxCalls
    /\ current_index' = g.current_index
    /\ request_counts' = g.request_counts
    /\ reset_time' = g.reset_time
    /\ window_log' = IF g.reset THEN <<g.ret>> ELSE Append(window_log, g.ret)
    /\ UNCHANGED <<providers, rate_limits, api_key, threads>>

\* no query is between two of its awaits
NoQuery == [pc |-> "idle", calls |-> <<>>, sent |-> <<>>, ends |-> <<>>,
            provider |-> None]

\* a call on ai_rotation alone: the clock and the cache stay as they are
ApplyGetProvider(g) ==
    /\ Rotate(g)
    /\ UNCHANGED <<now, cacheVars, pending, appVars>>

\* history: the HTTP requests sent to each remote provider in the window,
\* after a call with result g that sent the requests of sent
SentAfter(g, sent) ==
    [p \in Remote |->
        (IF g.reset THEN 0 ELSE sent_counts[p])
            + Cardinality({i \in DOMAIN sent : sent[i] = p})]

GetProvider ==
    LET g == GetProviderResult
    IN /\ ApplyGetProvider(g)
       /\ sent_counts' = SentAfter(g, <<>>)
       /\ last' = [NoCall EXCEPT !.op = "get_provider", !.ret = g.ret,
                                 !.provider = g.ret, !.reset = g.reset]

(* ----------------- get_provider, one statement at a time --------------- *)
\* the request threads of the server that share ai_rotation; each serves one
\* request, which calls get_provider once
Threads == 1..NumThreads

\* a thread outside get_provider; i counts the iterations of the for loop
\* and provider is the local variable of line 182
Idle == [pc |-> "idle", i |-> 0, provider |-> None]

\* a thread whose call has returned
Returned(provider) == [pc |-> "returned", i |-> 0, provider |-> provider]

\* the shared state the statements of get_provider leave alone
ThreadFrame ==
    UNCHANGED <<providers, rate_limits, api_key, now, cacheVars, sent_counts,
                pending, appVars>>

\* line 180: the call, with _reset_if_needed
ThreadCall(t) ==
    LET r == ResetIfNeeded(request_counts, reset_time, now)
    IN /\ threads[t].pc = "idle"
       /\ request_counts' = r.request_counts
       /\ reset_time' = r.reset_time
       /\ window_log' = IF r.reset THEN <<>> ELSE window_log
       /\ threads' = [threads EXCEPT ![t] = [Idle EXCEPT !.pc = "for"]]
       /\ UNCHANGED <<current_index, last>>
       /\ ThreadFrame

\* line 181: the for loop goes on or is over; line 187 returns "local"
ThreadFor(t) ==
    /\ threads[t].pc = "for"
    /\ IF threads[t].i < Len(providers)
       THEN /\ threads' = [threads EXCEPT ![t].pc = "read"]
            /\ UNCHANGED <<window_log, last>>
       ELSE /\ threads' = [threads EXCEPT ![t] = Returned("local")]
            /\ window_log' = Append(window_log, "local")
            /\ last' = [NoCall EXCEPT !.op = "get_provider", !.ret = "local",
                                      !.provider = "local"]
    /\ UNCHANGED <<current_index, request_counts, reset_time>>
    /\ ThreadFrame

\* line 182: provider = self.providers[self.current_index]
ThreadRead(t) ==
    /\ threads[t].pc = "read"
    /\ threads' = [threads EXCEPT ![t].pc = "test",
                                  ![t].provider = providers[current_index + 1]]
    /\ UNCHANGED <<current_index, request_counts, reset_time, window_log, last>>
    /\ ThreadFrame

\* line 183: the test of the budget
ThreadTest(t) ==
    /\ threads[t].pc = "test"
    /\ threads' = [threads EXCEPT ![t].pc =
                      IF HasBudget(request_counts, threads[t].provider)
                      THEN "grant" ELSE "advance"]
    /\ UNCHANGED <<current_index, request_counts, reset_time, window_log, last>>
    /\ ThreadFrame

\* lines 184-185: the increment and the return
ThreadGrant(t) ==
    LET provider == threads[t].provider
    IN /\ threads[t].pc = "grant"
       /\ request_counts' =
              [request_counts EXCEPT ![provider] = request_counts[provider] + 1]
       /\ threads' = [threads EXCEPT ![t] = Returned(provider)]
       /\ window_log' = Append(window_log, provider)
       /\ last' = [NoCall EXCEPT !.op = "get_provider", !.ret = provider,
                                 !.provider = provider]
       /\ UNCHANGED <<current_index, reset_time>>
       /\ ThreadFrame

\* line 186: the index moves past the exhausted provider
ThreadAdvance(t) ==
    /\ threads[t].pc = "advance"
    /\ current_index' = (current_index + 1) % Len(providers)
    /\ threads' = [threads EXCEPT ![t].pc = "for", ![t].i = threads[t].i + 1]
    /\ UNCHANGED <<request_counts, reset_time, window_log, last>>
    /\ ThreadFrame

(* ------------------------------- query --------------------------------- *)
\* what one HTTP exchange with a remote provider can do
Outcomes == {"ok", "http_error", "transport_exception", "invalid_json",
             "missing_field"}

\* the outcomes that raise inside the try block: session.post raising,
\* resp.json() raising, the lookup of the text in the decoded body raising
Raises(o) == o \in {"transport_exception", "invalid_json", "missing_field",
                    "timeout"}

\* a handler for transport errors only
ExceptCatchesTransportOnly(o) == o = "transport_exception"

\* except Exception: every one of them is a subclass of Exception
ExceptCatches(o) == o \in {"transport_exception", "invalid_json",
                           "missing_field", "timeout"}

LocalResponse == "[Local Analysis] Further research needed for: ..."

\* texts a remote provider can put in the body it answers with: prose, the
\* JSON object the prompt asks for, an object that is not JSON, an object
\* whose confidence is not a number, prose that begins like the local text
ProseText == "The claim is accurate."
JsonText == "{\"verdict\": \"true\", \"confidence\": 0.9, \"explanation\": \"confirmed\"}"
BrokenJsonText == "{verdict: true}"
BadConfidenceText == "{\"verdict\": \"false\", \"confidence\": \"high\"}"
TaggedText == "[Local Analysis] The claim is accurate."
RemoteTexts == {ProseText, JsonText, BrokenJsonText, BadConfidenceText,
                TaggedText}
Responses == {LocalResponse} \cup RemoteTexts

\* the record of one query: the value returned, the _query_* methods entered,
\* the providers an HTTP request was sent to, whether an exception escaped
Result(ret, calls, sent, raised) ==
    [ret |-> ret, calls |-> calls, sent |-> sent, raised |-> raised]

\* p was entered (and sent to, if s) before the rest of the chain ran
After(p, s, rest) ==
    [rest EXCEPT !.calls = <<p>> \o rest.calls,
                 !.sent = (IF s THEN <<p>> ELSE <<>>) \o rest.sent]

QueryLocal == Result(LocalResponse, <<"local">>, <<>>, FALSE)

\* _query_grok trying the exchange a second time when it fails
QueryGrokRetry(o, text) ==
    IF ~api_key["grok"] THEN After("grok", FALSE, QueryLocal)
    ELSE IF o = "ok" THEN Result(text, <<"grok">>, <<"grok">>, FALSE)
    ELSE After("grok", TRUE, After("grok", TRUE, QueryLocal))

\* _query_grok with exchange outcome o and, when it is "ok", the text of the
\* body
QueryGrok(o, text) ==
    IF ~api_key["grok"] THEN After("grok", FALSE, QueryLocal)
    ELSE IF o = "ok" THEN Result(text, <<"grok">>, <<"grok">>, FALSE)
    ELSE IF Raises(o) /\ ~ExceptCatches(o)
         THEN Result(None, <<"grok">>, <<"grok">>, TRUE)
    ELSE After("grok", TRUE, QueryLocal)

\* _query_gemini with exchange outcomes og (gemini) and ok (grok) and the
\* text of the body of the provider that answers
QueryGemini(og, ok, text) ==
    IF ~api_key["gemini"] THEN After("gemini", FALSE, QueryLocal)
    ELSE IF og = "ok"
         THEN Result(text, <<"gemini">>, <<"gemini">>, FALSE)
    ELSE IF Raises(og) /\ ~ExceptCatches(og)
         THEN Result(None, <<"gemini">>, <<"gemini">>, TRUE)
    ELSE After("gemini", TRUE, QueryGrok(ok, text))

\* the dispatch of query
QueryResult(provider, og, ok, text) ==
    IF provider = "gemini" THEN QueryGemini(og, ok, text)
    ELSE IF provider = "grok" THEN QueryGrok(ok, text)
    ELSE QueryLocal

Query(og, ok, text) ==
    LET g == GetProviderResult
        q == QueryResult(g.ret, og, ok, text)
    IN /\ ApplyGetProvider(g)
       /\ sent_counts' = SentAfter(g, q.sent)
       /\ last' = [NoCall EXCEPT !.op = "query", !.provider = g.ret,
                                 !.reset = g.reset, !.ret = q.ret,
                                 !.calls = q.calls, !.sent = q.sent,
                                 !.raised = q.raised]

(* ----------------------- query, from await to await -------------------- *)
\* the ends of an exchange: those of Outcomes and the TimeoutError the
\* session raises when the total time of its default timeout has passed
\* without an answer
ExchangeEnds == Outcomes \cup {"timeout"}

\* the method that tries the provider once more
NextMethodSame(p) == p

\* the method a failed _query_* method goes on to: lines 220 and 243
NextMethod(p) == IF p = "gemini" THEN "grok" ELSE "local"

\* the query in flight after entering _query_p: a remote method without an
\* API key goes to _query_local at once (lines 202-203, 224-225), one with a
\* key posts and awaits, _query_local returns
RECURSIVE Enter(_, _)
Enter(p, q) ==
    LET entered == [q EXCEPT !.calls = Append(q.calls, p)]
    IN IF p = "local" THEN [entered EXCEPT !.pc = "returning"]
       ELSE IF ~api_key[p] THEN Enter("local", entered)
       ELSE [entered EXCEPT !.pc = "awaiting", !.provider = p,
                            !.sent = Append(q.sent, p)]

\* lines 191-198: get_provider and the dispatch
QueryBegin ==
    LET g == GetProviderResult
        q == Enter(g.ret, [NoQuery EXCEPT !.provider = g.ret])
    IN /\ pending.pc = "idle"
       /\ Rotate(g)
       /\ pending' = q
       /\ sent_counts' = SentAfter(g, q.sent)
       /\ UNCHANGED <<now, cacheVars, appVars, last>>

\* the awaited exchange with the provider ends as o, with text in the body;
\* no query of the model goes on beyond one method more than there are
\* providers
ExchangeEnd(o, text) ==
    LET ended == [pending EXCEPT !.ends = Append(pending.ends, o)]
        done == [NoCall EXCEPT !.op = "query", !.provider = pending.calls[1],
                               !.calls = pending.calls, !.sent = pending.sent,
                               !.ends = ended.ends]
        next == Enter(NextMethod(pending.provider), ended)
    IN /\ pending.pc = "awaiting"
       /\ Len(pending.calls) <= Len(providers)
       /\ IF o = "ok"
          THEN /\ pending' = NoQuery
               /\ last' = [done EXCEPT !.ret = text]
               /\ UNCHANGED sent_counts
          ELSE IF Raises(o) /\ ~ExceptCatches(o)
          THEN /\ pending' = NoQuery
               /\ last' = [done EXCEPT !.raised = TRUE]
               /\ UNCHANGED sent_counts
          ELSE /\ pending' = next
               /\ sent_counts' =
                      SentAfter([reset |-> FALSE],
                                IF next.pc = "awaiting" THEN <<next.provider>>
                                ELSE <<>>)
               /\ UNCHANGED last
       /\ UNCHANGED <<providers, current_index, request_counts, rate_limits,
                      reset_time, api_key, window_log, threads, now, cacheVars,
                      appVars>>

\* line 247: _query_local returns its text and query returns it
LocalReturns ==
    /\ pending.pc = "returning"
    /\ pending' = NoQuery
    /\ last' = [NoCall EXCEPT !.op = "query", !.provider = pending.calls[1],
                              !.calls = pending.calls, !.sent = pending.sent,
                              !.ends = pending.ends, !.ret = LocalResponse]
    /\ UNCHANGED <<providers, current_index, request_counts, rate_limits,
                   reset_time, api_key, window_log, sent_counts, threads, now,
                   cacheVars, appVars>>

(* ------------------------ FactChecker.check_claim ---------------------- *)
\* response.startswith("[Local Analysis]")
StartsWithTag(response) == response \in {LocalResponse, TaggedText}

\* re.search(r'\{.*\}', response, re.DOTALL): the text from the first "{" to
\* the last "}", None when there is no such text
JsonMatch(response) ==
    CASE response = JsonText -> JsonText
      [] response = BrokenJsonText -> BrokenJsonText
      [] response = BadConfidenceText -> BadConfidenceText
      [] OTHER -> None

\* json.loads raises JSONDecodeError on the match
JsonDecodeError(match) == match = BrokenJsonText

\* json.loads(match): the keys of the object and their values
JsonLoads(match) ==
    CASE match = JsonText ->
             [verdict |-> "true", confidence |-> "0.9",
              explanation |-> "confirmed"]
      [] match = BadConfidenceText ->
             [verdict |-> "false", confidence |-> "high"]

\* the data of a response without a JSON object; every text of the model is
\* shorter than 500 characters, so response[:500] is the response
DefaultData(response) ==
    [verdict |-> "unverifiable", confidence |-> "0.5",
     explanation |-> response]

\* lines 305-322: the data check_claim reads the fact from
ParseResponse(response) ==
    LET json_match == JsonMatch(response)
    IN IF json_match = None THEN DefaultData(response)
       ELSE IF JsonDecodeError(json_match) THEN DefaultData(response)
       ELSE JsonLoads(json_match)

\* data.get(k, default)
DataGet(data, k, default) == IF k \in DOMAIN data THEN data[k] ELSE default

\* float(x) raises ValueError
FloatRaises(x) == x \notin {"0.5", "0.9"}

\* lines 325-333: the FactCheck; its id is a digest of claim and timestamp
BuildFact(claim, data, t) ==
    [claim |-> claim,
     verdict |-> DataGet(data, "verdict", "unverifiable"),
     confidence |-> DataGet(data, "confidence", "0.5"),
     explanation |-> DataGet(data, "explanation", ""),
     timestamp |-> t]

\* a check_claim that never finds the claim cached
CacheHitNever(claim) == FALSE

\* lines 296-297: cached = fact_cache.get(claim); if cached (a FactCheck is
\* never falsy)
CacheHit(claim) == GenerateKey(claim) \in DOMAIN cache

\* check_claim(claim) when the exchanges with gemini and grok end as og and
\* ok and the provider that answers sends text
CheckClaim(claim, og, ok, text) ==
    LET key == GenerateKey(claim)
        g == GetProviderResult
        q == QueryResult(g.ret, og, ok, text)
        data == ParseResponse(q.ret)
        fact == BuildFact(claim, data, now)
        r == SetResult(cache, access_times, claim, fact, now)
        call == [NoCall EXCEPT !.op = "check_claim", !.arg = claim]
        asked == [call EXCEPT !.provider = g.ret, !.reset = g.reset,
                              !.calls = q.calls, !.sent = q.sent]
    IN /\ UNCHANGED <<max_size, now, setters, appVars>>
       /\ IF CacheHit(claim)
          THEN /\ access_times' = DictSet(access_times, key, now)
               /\ lru_order' = Touch(lru_order, key)
               /\ last' = [call EXCEPT !.ret = cache[key], !.hit = TRUE]
               /\ UNCHANGED <<cache, rotVars>>
          ELSE /\ Rotate(g)
               /\ sent_counts' = SentAfter(g, q.sent)
               /\ UNCHANGED pending
               /\ IF q.raised \/ FloatRaises(DataGet(data, "confidence", "0.5"))
                  THEN /\ last' = [asked EXCEPT !.raised = TRUE]
                       /\ UNCHANGED <<cache, access_times, lru_order>>
                  ELSE /\ cache' = r.cache
                       /\ access_times' = r.access_times
                       /\ lru_order' = SelectSeq(Touch(lru_order, key),
                                           LAMBDA x : x \in DOMAIN r.cache)
                       /\ last' = [asked EXCEPT !.ret = fact, !.val = fact]

(* ---------------------- FactChecker: research sessions ----------------- *)
Users == {"u1", "u2"}
Topic == "General research"

\* line 365: the first 12 digits of the MD5 of user_id and the time; the pair
\* stands for the digest, which differs for the pairs of the model
SessionId(user_id, t) == <<user_id, t>>

\* the ids end_session is called with: those start_session can have given,
\* started or not
SessionIds == {SessionId(user_id, t) : user_id \in Users, t \in 0..(MaxStarts - 1)}

\* self.active_sessions[id] = session
SessionPut(a, id, session) ==
    [x \in (DOMAIN a) \cup {id} |-> IF x = id THEN session ELSE a[x]]

\* an end_session that leaves the session among the active ones
SessionDelNot(a, id) == a

\* line 381: del self.active_sessions[session_id]
SessionDel(a, id) == [x \in (DOMAIN a) \ {id} |-> a[x]]

NoSessions == [x \in {} |-> None]

\* start_session: the call takes longer than the resolution of the clock, so
\* two calls read different times
StartSession(user_id) ==
    LET id == SessionId(user_id, now)
        session == [id |-> id, user_id |-> user_id, topic |-> Topic,
                    started_at |-> now, ended_at |-> None,
                    duration_minutes |-> 0]
    IN /\ now < MaxStarts
       /\ active_sessions' = SessionPut(active_sessions, id, session)
       /\ now' = now + 1
       /\ last' = [NoCall EXCEPT !.op = "start_session", !.arg = user_id,
                                 !.ret = session, !.hit = TRUE]
       /\ UNCHANGED <<ended_log, queueVars, callVars, chatVars, cacheVars,
                      rotVars>>

\* end_session; hit records that a session, not None, is returned
EndSession(session_id) ==
    /\ IF session_id \in DOMAIN active_sessions
       THEN LET session == [active_sessions[session_id] EXCEPT
                               !.ended_at = now,
                               !.duration_minutes =
                                   now - active_sessions[session_id].started_at]
            IN /\ active_sessions' = SessionDel(active_sessions, session_id)
               /\ ended_log' = Append(ended_log, session_id)
               /\ last' = [NoCall EXCEPT !.op = "end_session",
                                         !.arg = session_id, !.ret = session,
                                         !.hit = TRUE]
       ELSE /\ last' = [NoCall EXCEPT !.op = "end_session", !.arg = session_id]
            /\ UNCHANGED <<active_sessions, ended_log>>
    /\ UNCHANGED <<now, queueVars, callVars, chatVars, cacheVars, rotVars>>

(* ------------------- CallQueueManager: the call queues ----------------- *)
Businesses == {"b1", "b2"}
Reasons == {"Emergency", "support", "billing"}

\* reason.lower() for the reasons of the model
LowerReason(reason) == IF reason = "Emergency" THEN "emergency" ELSE reason

\* _calculate_priority: priorities.get(reason.lower(), 1)
CalculatePriority(reason) ==
    LET r == LowerReason(reason)
    IN IF r = "emergency" THEN 5
       ELSE IF r = "urgent" THEN 4
       ELSE IF r = "appointment" THEN 3
       ELSE IF r \in {"support", "inquiry"} THEN 2
       ELSE 1

\* an insertion that also passes the calls of the same priority
InsertIndexPassingEqual(queue, priority) ==
    LET lower == {i \in DOMAIN queue : priority >= queue[i].priority}
    IN IF lower = {} THEN Len(queue) + 1
       ELSE CHOOSE i \in lower : \A j \in lower : i <= j

\* lines 702-710: before the first call of a lower priority, else at the end
InsertIndex(queue, priority) ==
    LET lower == {i \in DOMAIN queue : priority > queue[i].priority}
    IN IF lower = {} THEN Len(queue) + 1
       ELSE CHOOSE i \in lower : \A j \in lower : i <= j

\* list.insert(i, call), and append when i is past the end
InsertAt(queue, i, call) ==
    SubSeq(queue, 1, i - 1) \o <<call>> \o SubSeq(queue, i, Len(queue))

\* _update_positions
UpdatePositions(queue) ==
    [i \in DOMAIN queue |-> [queue[i] EXCEPT !.queue_position = i]]

\* self.queues.get(business_id, [])
QueueOf(business_id) ==
    IF business_id \in DOMAIN queues THEN queues[business_id] ELSE <<>>

\* add_to_queue; next_call stands for the digest of the phone number and the
\* time of the call, which differs from call to call
AddToQueue(business_id, reason) ==
    LET queue == QueueOf(business_id)
        priority == CalculatePriority(reason)
        call == [id |-> next_call, business_id |-> business_id,
                 priority |-> priority, reason |-> reason,
                 queue_position |-> Len(queue) + 1, status |-> "waiting"]
        after == UpdatePositions(
                     InsertAt(queue, InsertIndex(queue, priority), call))
        at == CHOOSE i \in DOMAIN after : after[i].id = next_call
    IN /\ next_call <= MaxQueued
       /\ queues' = [b \in (DOMAIN queues) \cup {business_id} |->
                        IF b = business_id THEN after ELSE queues[b]]
       /\ next_call' = next_call + 1
       /\ last' = [NoCall EXCEPT !.op = "add_to_queue", !.arg = business_id,
                                 !.ret = after[at], !.hit = TRUE]
       /\ UNCHANGED <<now, sessVars, callVars, chatVars, cacheVars, rotVars>>

\* the indexes of the waiting calls, in queue order
Waiting(queue) == {i \in DOMAIN queue : queue[i].status = "waiting"}

\* a get_next that hands out the last waiting call
NextWaitingLast(queue) ==
    CHOOSE i \in Waiting(queue) : \A j \in Waiting(queue) : i >= j

\* line 740: waiting[0]
NextWaiting(queue) ==
    CHOOSE i \in Waiting(queue) : \A j \in Waiting(queue) : i <= j

\* get_next; hit records that a call, not None, is returned
GetNext(business_id) ==
    LET queue == QueueOf(business_id)
    IN /\ IF Waiting(queue) # {}
          THEN LET i == NextWaiting(queue)
                   call == [queue[i] EXCEPT !.status = "connected"]
               IN /\ queues' = [queues EXCEPT ![business_id][i] = call]
                  /\ last' = [NoCall EXCEPT !.op = "get_next",
                                            !.arg = business_id,
                                            !.ret = call, !.hit = TRUE]
          ELSE /\ last' = [NoCall EXCEPT !.op = "get_next",
                                         !.arg = business_id]
               /\ UNCHANGED queues
       /\ UNCHANGED <<next_call, now, sessVars, callVars, chatVars, cacheVars,
                      rotVars>>

\* abandon_call: the call with the id, whatever its status, becomes abandoned;
\* hit is the boolean returned
AbandonCall(call_id) ==
    LET found == \E b \in DOMAIN queues :
                     \E i \in DOMAIN queues[b] : queues[b][i].id = call_id
    IN /\ queues' = [b \in DOMAIN queues |->
                        [i \in DOMAIN queues[b] |->
                            IF queues[b][i].id = call_id
                            THEN [queues[b][i] EXCEPT !.status = "abandoned"]
                            ELSE queues[b][i]]]
       /\ last' = [NoCall EXCEPT !.op = "abandon_call", !.val = call_id,
                                 !.hit = found]
       /\ UNCHANGED <<next_call, now, sessVars, callVars, chatVars, cacheVars,
                      rotVars>>

(* ---------------------- CallHandler: the call sessions ----------------- *)
EndedReply == "Sorry, this call session has ended."
ErrorReply == "Sorry, there was an error."
AiReply == "ai_response"

\* the call ids of the model: the ids start_call has given and one it has not
CallIds == 1..(MaxActive + 1)

\* register_business
RegisterBusiness(business_id) ==
    /\ businesses' = businesses \cup {business_id}
    /\ last' = [NoCall EXCEPT !.op = "register_business", !.arg = business_id]
    /\ UNCHANGED <<active_calls, ended_calls, now, sessVars, queueVars,
                   chatVars, cacheVars, rotVars>>

\* start_call: ValueError for a business that is not registered; the call id,
\* a digest of the business, the phone number and the time, is new each time;
\* the transcript, a list of entries, is kept as the list of their roles
StartCall(business_id) ==
    LET call_id == Cardinality(DOMAIN active_calls) + 1
        call == [id |-> call_id, business_id |-> business_id,
                 transcript |-> <<"ai">>, summary |-> "",
                 duration_seconds |-> 0]
    IN /\ call_id <= MaxActive
       /\ IF business_id \notin businesses
          THEN /\ last' = [NoCall EXCEPT !.op = "start_call",
                                         !.arg = business_id, !.raised = TRUE]
               /\ UNCHANGED active_calls
          ELSE /\ active_calls' = [x \in (DOMAIN active_calls) \cup {call_id} |->
                                      IF x = call_id THEN call
                                      ELSE active_calls[x]]
               /\ last' = [NoCall EXCEPT !.op = "start_call",
                                         !.arg = business_id, !.val = call_id]
       /\ UNCHANGED <<ended_calls, businesses, now, sessVars, queueVars,
                      chatVars, cacheVars, rotVars>>

\* handle_message: the reply of line 287 for a call_id that is not a key of
\* active_calls; else the caller's message and the reply of voice_ai are
\* appended to the transcript
HandleMessage(call_id) ==
    /\ IF call_id \notin DOMAIN active_calls
       THEN /\ last' = [NoCall EXCEPT !.op = "handle_message",
                                      !.val = call_id, !.ret = EndedReply]
            /\ UNCHANGED active_calls
       ELSE IF active_calls[call_id].business_id \notin businesses
       THEN /\ last' = [NoCall EXCEPT !.op = "handle_message",
                                      !.val = call_id, !.ret = ErrorReply]
            /\ UNCHANGED active_calls
       ELSE /\ Len(active_calls[call_id].transcript) + 2 <= MaxTranscript
            /\ active_calls' =
                   [active_calls EXCEPT ![call_id].transcript =
                                            @ \o <<"caller", "ai">>]
            /\ last' = [NoCall EXCEPT !.op = "handle_message",
                                      !.val = call_id, !.ret = AiReply]
    /\ UNCHANGED <<ended_calls, businesses, now, sessVars, queueVars, chatVars,
                   cacheVars, rotVars>>

\* end_call: ValueError for a call_id that is not a key of active_calls; else
\* the summary and the duration are set and the call stays in active_calls
EndCall(call_id) ==
    /\ IF call_id \notin DOMAIN active_calls
       THEN /\ last' = [NoCall EXCEPT !.op = "end_call", !.val = call_id,
                                      !.raised = TRUE]
            /\ UNCHANGED <<active_calls, ended_calls>>
       ELSE /\ active_calls' =
                   [active_calls EXCEPT
                       ![call_id].summary = "summary",
                       ![call_id].duration_seconds =
                           Len(active_calls[call_id].transcript) * 15]
            /\ ended_calls' = ended_calls \cup {call_id}
            /\ last' = [NoCall EXCEPT !.op = "end_call", !.val = call_id]
    /\ UNCHANGED <<businesses, now, sessVars, queueVars, chatVars, cacheVars,
                   rotVars>>

(* --------------------- LiveChatManager: the human queue ---------------- *)
\* the session ids of the model: the ids start_session has given and one it
\* has not
ChatIds == 1..(MaxChats + 1)

\* list.remove(x): the first occurrence of x is taken out
RECURSIVE ListRemove(_, _)
ListRemove(queue, x) ==
    IF queue = <<>> THEN <<>>
    ELSE IF Head(queue) = x THEN Tail(queue)
    ELSE <<Head(queue)>> \o ListRemove(Tail(queue), x)

\* x in list
InList(queue, x) == \E i \in DOMAIN queue : queue[i] = x

\* LiveChatManager.start_session; the id, a digest of the customer and the
\* time, is new each time
ChatStartSession ==
    LET id == Cardinality(DOMAIN chat_sessions) + 1
        session == [id |-> id, status |-> "active", queue_position |-> 0,
                    assigned_agent |-> "ai"]
    IN /\ id <= MaxChats
       /\ chat_sessions' = [x \in (DOMAIN chat_sessions) \cup {id} |->
                               IF x = id THEN session ELSE chat_sessions[x]]
       /\ last' = [NoCall EXCEPT !.op = "chat_start_session", !.val = id]
       /\ UNCHANGED <<chat_queue, now, sessVars, queueVars, callVars,
                      cacheVars, rotVars>>

\* transfer_to_human: -1 for an unknown id; else the session, whatever its
\* status, is set waiting and its id appended to the queue
TransferToHuman(session_id) ==
    /\ IF session_id \notin DOMAIN chat_sessions
       THEN /\ last' = [NoCall EXCEPT !.op = "transfer_to_human",
                                      !.val = session_id, !.ret = -1]
            /\ UNCHANGED <<chat_sessions, chat_queue>>
       ELSE /\ Len(chat_queue) < MaxChatQueue
            /\ chat_queue' = Append(chat_queue, session_id)
            /\ chat_sessions' =
                   [chat_sessions EXCEPT
                       ![session_id].status = "waiting",
                       ![session_id].assigned_agent = "human_queue",
                       ![session_id].queue_position = Len(chat_queue) + 1]
            /\ last' = [NoCall EXCEPT !.op = "transfer_to_human",
                                      !.val = session_id,
                                      !.ret = Len(chat_queue) + 1]
    /\ UNCHANGED <<now, sessVars, queueVars, callVars, cacheVars, rotVars>>

\* LiveChatManager.end_session
ChatEndSession(session_id) ==
    /\ IF session_id \notin DOMAIN chat_sessions
       THEN UNCHANGED <<chat_sessions, chat_queue>>
       ELSE /\ chat_sessions' =
                   [chat_sessions EXCEPT ![session_id].status = "ended"]
            /\ chat_queue' = IF InList(chat_queue, session_id)
                             THEN ListRemove(chat_queue, session_id)
                             ELSE chat_queue
    /\ last' = [NoCall EXCEPT !.op = "chat_end_session", !.val = session_id]
    /\ UNCHANGED <<now, sessVars, queueVars, callVars, cacheVars, rotVars>>

(* --------------------------- specifications ---------------------------- *)
\* no session, call or chat yet
AppsInit ==
    /\ active_sessions = NoSessions
    /\ ended_log = <<>>
    /\ queues = [x \in {} |-> <<>>]
    /\ next_call = 1
    /\ active_calls = [x \in {} |-> None]
    /\ ended_calls = {}
    /\ businesses = {}
    /\ chat_sessions = [x \in {} |-> None]
    /\ chat_queue = <<>>

\* Mem0Cache(max_size), empty
CacheInit(sizes) ==
    /\ max_size \in sizes
    /\ cache = EmptyCache
    /\ access_times = <<>>
    /\ lru_order = <<>>
    /\ setters = [t \in 1..NumThreads |-> NoSet]

\* AIProviderRotation(): the remote providers configured before "local",
\* their limits and the API keys of the environment
RotInit(lists, limits, keys) ==
    /\ providers \in lists
    /\ current_index = 0
    /\ request_counts = [p \in Range(providers) |-> 0]
    /\ rate_limits \in limits
    /\ reset_time = now
    /\ api_key \in [Remote -> keys]
    /\ window_log = <<>>
    /\ sent_counts = [p \in Remote |-> 0]
    /\ threads = [t \in Threads |-> Idle]
    /\ pending = NoQuery

DefaultProviders == <<"gemini", "grok", "local">>
DefaultLimits == [gemini |-> GeminiLimit, grok |-> GrokLimit,
                  local |-> Infinity]
SmallLimits == {[gemini |-> lg, grok |-> lk, local |-> Infinity] :
                   lg \in 0..MaxLimit, lk \in 0..MaxLimit}
ProviderLists == {<<"local">>, <<"gemini", "local">>, DefaultProviders}

\* the cache alone, of every capacity up to MaxSize
InitCache ==
    /\ now = 0
    /\ last = NoCall
    /\ AppsInit
    /\ CacheInit(0..MaxSize)
    /\ RotInit({DefaultProviders}, {DefaultLimits}, {TRUE})

CacheTick == Tick(1, MaxNow)

\* one claim string for every key: the strings normalization leaves alone
CanonicalClaims == {claim \in Claims : Normalize(claim) = claim}

NextCache ==
    \/ \E claim \in CanonicalClaims : Get(claim)
    \/ \E claim \in CanonicalClaims, fact \in Facts : Set(claim, fact)
    \/ CacheTick

SpecCache == InitCache /\ [][NextCache]_vars

\* the cache called with every claim string, at one clock reading
InitKeys ==
    /\ now = 0
    /\ last = NoCall
    /\ AppsInit
    /\ CacheInit({1, 2})
    /\ RotInit({DefaultProviders}, {DefaultLimits}, {TRUE})

NextKeys ==
    \/ \E claim \in Claims : Get(claim)
    \/ \E claim \in Claims, fact \in Facts : Set(claim, fact)

SpecKeys == InitKeys /\ [][NextKeys]_vars

\* the rotation alone, of every configuration up to MaxLimit
InitRot ==
    /\ now = 0
    /\ last = NoCall
    /\ AppsInit
    /\ CacheInit({DefaultMaxSize})
    /\ RotInit(ProviderLists, SmallLimits, BOOLEAN)

RotSteps == {WindowMicros \div 2, WindowMicros + 1}

RotTick == \E d \in RotSteps : Tick(d, MaxRotNow)

\* query hands the text on as it is: one text that begins like the local
\* text and one that does not
RotTexts == {ProseText, TaggedText}

NextRot ==
    \/ GetProvider
    \/ \E og \in Outcomes, ok \in Outcomes, text \in RotTexts :
           Query(og, ok, text)
    \/ RotTick

SpecRot == InitRot /\ [][NextRot]_vars

\* check_claim on fact_cache and ai_rotation, each remote provider with one
\* request per window
InitCheck ==
    /\ now = 0
    /\ last = NoCall
    /\ AppsInit
    /\ CacheInit(1..MaxSize)
    /\ RotInit({DefaultProviders},
               {[gemini |-> 1, grok |-> 1, local |-> Infinity]}, {TRUE})

\* claims of two keys, two of them of one key
CheckClaims == {<<"A">>, <<" ", "a">>, <<>>}

CheckOutcomes == {"ok", "http_error"}

NextCheck ==
    \/ \E claim \in CheckClaims, og \in CheckOutcomes, ok \in CheckOutcomes,
          text \in RemoteTexts :
           CheckClaim(claim, og, ok, text)
    \/ CacheTick

SpecCheck == InitCheck /\ [][NextCheck]_vars

\* the research sessions of fact_checker
InitSessions ==
    /\ now = 0
    /\ last = NoCall
    /\ AppsInit
    /\ CacheInit({DefaultMaxSize})
    /\ RotInit({DefaultProviders}, {DefaultLimits}, {TRUE})

NextSessions ==
    \/ \E user_id \in Users : StartSession(user_id)
    \/ \E session_id \in SessionIds : EndSession(session_id)

SpecSessions == InitSessions /\ [][NextSessions]_vars

\* the operations of call_queue
InitQueue ==
    /\ now = 0
    /\ last = NoCall
    /\ AppsInit
    /\ CacheInit({DefaultMaxSize})
    /\ RotInit({DefaultProviders}, {DefaultLimits}, {TRUE})

NextQueue ==
    \/ \E business_id \in Businesses, reason \in Reasons :
           AddToQueue(business_id, reason)
    \/ \E business_id \in Businesses : GetNext(business_id)
    \/ \E call_id \in 1..MaxQueued : AbandonCall(call_id)

SpecQueue == InitQueue /\ [][NextQueue]_vars

\* the operations of call_handler
InitCalls ==
    /\ now = 0
    /\ last = NoCall
    /\ AppsInit
    /\ CacheInit({DefaultMaxSize})
    /\ RotInit({DefaultProviders}, {DefaultLimits}, {TRUE})

NextCalls ==
    \/ \E business_id \in Businesses : RegisterBusiness(business_id)
    \/ \E business_id \in Businesses : StartCall(business_id)
    \/ \E call_id \in CallIds : HandleMessage(call_id)
    \/ \E call_id \in CallIds : EndCall(call_id)

SpecCalls == InitCalls /\ [][NextCalls]_vars

\* the operations of live_chat
InitChat ==
    /\ now = 0
    /\ last = NoCall
    /\ AppsInit
    /\ CacheInit({DefaultMaxSize})
    /\ RotInit({DefaultProviders}, {DefaultLimits}, {TRUE})

NextChat ==
    \/ ChatStartSession
    \/ \E session_id \in ChatIds : TransferToHuman(session_id)
    \/ \E session_id \in ChatIds : ChatEndSession(session_id)

SpecChat == InitChat /\ [][NextChat]_vars

\* set called from the request threads, statement by statement, at one
\* clock reading
InitSetters ==
    /\ now = 0
    /\ last = NoCall
    /\ AppsInit
    /\ CacheInit(1..MaxSize)
    /\ RotInit({DefaultProviders}, {DefaultLimits}, {TRUE})

NextSetters ==
    \E t \in Threads :
        \/ \E claim \in CanonicalClaims, fact \in Facts : SetCall(t, claim, fact)
        \/ SetCapacity(t)
        \/ EvictEmpty(t)
        \/ EvictMin(t)
        \/ EvictDelCache(t)
        \/ EvictDelTimes(t)
        \/ SetStore(t)
        \/ SetStamp(t)

SpecSetters == InitSetters /\ [][NextSetters]_vars

\* one query at a time, from await to await, at one clock reading
InitAwait ==
    /\ now = 0
    /\ last = NoCall
    /\ AppsInit
    /\ CacheInit({DefaultMaxSize})
    /\ RotInit({DefaultProviders}, SmallLimits, BOOLEAN)

NextAwait ==
    \/ QueryBegin
    \/ \E o \in ExchangeEnds, text \in RotTexts : ExchangeEnd(o, text)
    \/ LocalReturns

SpecAwait == InitAwait /\ [][NextAwait]_vars

\* the event loop runs a coroutine that can run, and the session ends an
\* exchange that is not answered within its total timeout
SpecAwaitFair == SpecAwait /\ WF_vars(NextAwait)

\* get_provider called from the request threads, statement by statement, at
\* one clock reading
InitThreads ==
    /\ now = 0
    /\ last = NoCall
    /\ AppsInit
    /\ CacheInit({DefaultMaxSize})
    /\ RotInit(ProviderLists, SmallLimits, {TRUE})

NextThreads ==
    \E t \in Threads :
        \/ ThreadCall(t)
        \/ ThreadFor(t)
        \/ ThreadRead(t)
        \/ ThreadTest(t)
        \/ ThreadGrant(t)
        \/ ThreadAdvance(t)

SpecThreads == InitThreads /\ [][NextThreads]_vars

(* ------------------------------ Mem0Cache claims ----------------------- *)
\* a step of set (set leaves the clock alone, a tick does not)
IsSetStep == last'.op = "set" /\ now' = now

\* C1: the cache never holds more entries than max_size, whatever max_size
\* is (0 and 1 included)
CacheWithinCapacity == Cardinality(DOMAIN cache) <= max_size

\* C2: a set of a new key into a non-empty cache at capacity evicts exactly
\* one entry, the one whose most recent get hit or set is the oldest
EvictsLeastRecentlyAccessed ==
    [][(/\ IsSetStep
        /\ cache # EmptyCache
        /\ AtCapacity(cache)
        /\ GenerateKey(last'.arg) \notin DOMAIN cache)
       => DOMAIN cache' = ((DOMAIN cache) \ {lru_order[1]})
                              \cup {GenerateKey(last'.arg)}]_vars

\* C3: a second set(K, V) right after set(K, V) leaves the cached keys, the
\* size and every value as the first one left them
SetIdempotent ==
    [][(/\ IsSetStep
        /\ last.op = "set"
        /\ last'.arg = last.arg
        /\ last'.val = last.val) => cache' = cache]_vars

\* C4: right after set(s2, V), get(s1) returns V for every s1 equal to s2
\* after lower-casing and trimming, and a string that differs from s2 after
\* that normalization has another key
NormalizedKeyShared ==
    last.op = "set" =>
        \A s1 \in Claims :
            IF Normalize(s1) = Normalize(last.arg)
            THEN GetReturn(cache, s1) = last.val
            ELSE GenerateKey(s1) # GenerateKey(last.arg)

\* C4 witness: set("A ", V) has run and get("a") finds V
NormalizedKeyHit ==
    /\ last.op = "set"
    /\ last.arg = <<"A", " ">>
    /\ GetReturn(cache, <<"a">>) = last.val
    /\ Cardinality(DOMAIN cache) = 2

(* ------------------------- AIProviderRotation claims ------------------- *)
\* a step of get_provider, alone or inside query
IsGetProviderStep == last'.op \in {"get_provider", "query"} /\ now' = now

RemoteConfigured == Range(providers) \cap Remote

\* 0-based position of provider p in providers
PositionOf(p) == (CHOOSE i \in DOMAIN providers : providers[i] = p) - 1

OneRemoteLimitOne ==
    providers = <<"gemini", "local">> /\ rate_limits["gemini"] = 1

\* C5: no counter exceeds its limit; with one remote provider of limit 1 the
\* second request of a window is served by the local fallback
CountsWithinLimits ==
    /\ \A p \in DOMAIN request_counts :
           rate_limits[p] = Infinity \/ request_counts[p] <= rate_limits[p]
    /\ (OneRemoteLimitOne /\ Len(window_log) >= 2) => window_log[2] = "local"

\* C5 witness: the single remote provider is exhausted and the second request
\* of the window went to the local fallback
SecondServedLocally ==
    /\ OneRemoteLimitOne
    /\ window_log = <<"gemini", "local">>
    /\ request_counts["gemini"] = 1

\* C6: with every remote limit 1, the calls of one window return the remote
\* providers in configured order, then the local fallback
RotationInOrder ==
    (\A p \in RemoteConfigured : rate_limits[p] = 1) =>
        \A i \in DOMAIN window_log :
            i <= Len(providers) => window_log[i] = providers[i]

\* C7: get_provider leaves current_index one past the remote provider it
\* selected
IndexAdvancesPastSelected ==
    [][(IsGetProviderStep /\ last'.provider \in Remote) =>
         current_index' = (PositionOf(last'.provider) + 1) % Len(providers)]_vars

\* C8: get_provider returns "local" only when every remote provider is
\* exhausted
LocalOnlyWhenExhausted ==
    (last.op \in {"get_provider", "query"} /\ last.provider = "local") =>
        \A p \in RemoteConfigured : request_counts[p] >= rate_limits[p]

\* C9: a get_provider call made more than one window after the last reset
\* finds every provider that was used up with its budget back: it counts
\* from zero again, with no other call needed
BudgetBackAfterWindow ==
    [][(IsGetProviderStep /\ now - reset_time > WindowMicros) =>
         \A p \in RemoteConfigured :
             (request_counts[p] > 0 /\ request_counts[p] >= rate_limits[p]) =>
                 /\ request_counts'[p] = (IF last'.provider = p THEN 1 ELSE 0)
                 /\ last'.provider # p => request_counts'[p] < rate_limits[p]]_vars

\* C9 witness: gemini was used up, the window went stale and the call that
\* found it stale was granted gemini again
GrantedAfterRollover ==
    /\ last.op = "get_provider"
    /\ last.reset
    /\ last.provider = "gemini"
    /\ rate_limits["gemini"] = 1
    /\ request_counts["gemini"] = 1

EachProviderOnce ==
    last.op = "query" =>
        \A i, j \in DOMAIN last.calls : last.calls[i] = last.calls[j] => i = j

\* C11 witness: gemini failed, was not tried again, and grok answered
GrokAnsweredAfterGemini ==
    /\ last.op = "query"
    /\ last.calls = <<"gemini", "grok">>
    /\ last.sent = <<"gemini", "grok">>
    /\ last.ret \in RemoteTexts

\* C12: when gemini was chosen and the local fallback answered, grok (which
\* has an API key) was attempted in between
LocalAnswersLast ==
    (/\ last.op = "query"
     /\ last.provider = "gemini"
     /\ last.ret = LocalResponse
     /\ api_key["grok"])
        => last.calls = <<"gemini", "grok", "local">>

\* after the lazy reset of the step, no configured remote provider has budget
\* (the scan leaves the counters of the providers it skips alone)
NoRemoteBudget ==
    \A p \in RemoteConfigured : request_counts'[p] >= rate_limits[p]

\* C18 as stated: a get_provider call that returns "local" because no remote
\* provider has budget changes no entry of request_counts
LocalChangesNoCounter ==
    [][(IsGetProviderStep /\ last'.provider = "local" /\ ~last'.reset
        /\ RemoteConfigured # {} /\ NoRemoteBudget)
       => request_counts' = request_counts]_vars

\* C18 amended: such a call changes the counter of no remote provider, and
\* counts one more request for "local"
LocalChangesOnlyItsCounter ==
    [][(IsGetProviderStep /\ last'.provider = "local" /\ NoRemoteBudget)
       => /\ \A p \in RemoteConfigured : request_counts'[p] = request_counts[p]
          /\ request_counts'["local"] =
                 (IF last'.reset THEN 0 ELSE request_counts["local"]) + 1]_vars

\* C18 witness: gemini and grok are used up and the call returned "local"
LocalAfterBothExhausted ==
    /\ last.op = "get_provider"
    /\ last.provider = "local"
    /\ providers = DefaultProviders
    /\ \A p \in Remote : rate_limits[p] = 1 /\ request_counts[p] = 1
    /\ request_counts["local"] = 2

\* C19: set of a key that is cached, in a cache at capacity, overwrites the
\* value and evicts nothing
OverwriteEvictsNothing ==
    [][(IsSetStep /\ AtCapacity(cache)
        /\ GenerateKey(last'.arg) \in DOMAIN cache)
       => /\ DOMAIN cache' = DOMAIN cache
          /\ cache'[GenerateKey(last'.arg)] = last'.val]_vars

\* C20 as stated: a stale window start moves ahead by one window exactly
WindowOnGrid ==
    [][(IsGetProviderStep /\ now - reset_time > WindowMicros)
       => reset_time' = reset_time + WindowMicros]_vars

\* C20 amended: a stale window start is set to the time of the call, more
\* than one window after its old value; a window that is not stale stays
WindowRestartsAtCall ==
    [][IsGetProviderStep =>
         IF now - reset_time > WindowMicros
         THEN reset_time' = now /\ reset_time' - reset_time > WindowMicros
         ELSE reset_time' = reset_time]_vars

\* C20 witness: a call found the window stale 90 s after its start
RestartedOffGrid ==
    /\ last.op = "get_provider"
    /\ last.reset
    /\ reset_time = WindowMicros + WindowMicros \div 2

\* C17: in one window a remote provider with a limit of at least 1 is sent
\* no more HTTP requests than its limit, fall-through included
SentWithinLimits ==
    \A p \in Remote : rate_limits[p] >= 1 => sent_counts[p] <= rate_limits[p]

\* C16: however the statements of concurrent get_provider calls interleave,
\* no counter exceeds its limit
SlotGrantedOnce ==
    \A p \in RemoteConfigured : request_counts[p] <= rate_limits[p]

\* a step that is a call of check_claim
IsCheckClaimStep == last'.op = "check_claim" /\ now' = now

\* C13: a check_claim of a claim whose key is cached returns the cached fact
\* and enters no provider; request_counts, current_index and the cached keys
\* stay as they were
CachedClaimShortCircuits ==
    [][(IsCheckClaimStep /\ GenerateKey(last'.arg) \in DOMAIN cache)
         => /\ last'.hit
            /\ last'.ret = cache[GenerateKey(last'.arg)]
            /\ last'.calls = <<>>
            /\ last'.sent = <<>>
            /\ request_counts' = request_counts
            /\ current_index' = current_index
            /\ DOMAIN cache' = DOMAIN cache]_vars

\* C13 witness: a cached claim was served after a provider had been charged
\* for it
CacheHitServed ==
    /\ last.op = "check_claim"
    /\ last.hit
    /\ last.ret.claim = last.arg
    /\ request_counts["gemini"] = 1

\* C14: after a check_claim that missed and returned a fact, the fact is
\* cached under the claim's key (max_size >= 1) and the next check_claim of
\* any claim of that key returns it and enters no provider
MissThenSameKeyHits ==
    [][(/\ last.op = "check_claim"
        /\ ~last.hit
        /\ ~last.raised
        /\ max_size >= 1
        /\ IsCheckClaimStep
        /\ GenerateKey(last'.arg) = GenerateKey(last.arg))
         => /\ GenerateKey(last.arg) \in DOMAIN cache
            /\ cache[GenerateKey(last.arg)] = last.ret
            /\ last'.hit
            /\ last'.ret = last.ret
            /\ last'.calls = <<>>
            /\ request_counts' = request_counts]_vars

\* C14 witness: the fact of one claim was returned for another claim of the
\* same key
SameKeyOtherClaimHit ==
    /\ last.op = "check_claim"
    /\ last.hit
    /\ last.ret.claim # last.arg
    /\ max_size >= 1

\* C15: the text query returns starts with "[Local Analysis]" exactly when
\* _query_local produced it
TagOnlyFromLocal ==
    (last.op = "query" /\ ~last.raised) =>
        (StartsWithTag(last.ret) <=> last.calls[Len(last.calls)] = "local")

\* C21: current_index is a valid position of providers in every state, after
\* any sequence of get_provider calls and window resets
IndexInRange == 0 <= current_index /\ current_index < Len(providers)

\* C21 witness: a call that reset the window left the index on the last
\* position of the three
IndexLastAfterReset ==
    /\ last.op = "get_provider"
    /\ last.reset
    /\ Len(providers) = 3
    /\ current_index = 2

\* C22: every query returns: it enters at most len(providers) methods, in
\* the order gemini, grok, local, and an exchange that is not answered ends as
\* a failure that moves on to the next method
QueryReturns ==
    /\ [](Len(pending.calls) <= Len(providers))
    /\ [](\A i, j \in DOMAIN pending.calls :
            i < j => PositionOf(pending.calls[i]) < PositionOf(pending.calls[j]))
    /\ (pending.pc # "idle") ~> (pending.pc = "idle" /\ ~last.raised)

\* C22 witness: both exchanges ran into the timeout and the local method
\* answered
ReturnedAfterTimeouts ==
    /\ last.op = "query"
    /\ last.calls = <<"gemini", "grok", "local">>
    /\ last.ends = <<"timeout", "timeout">>
    /\ last.ret = LocalResponse
    /\ pending.pc = "idle"

\* C24: under sequential get and set calls, cache and access_times hold the
\* same keys
SameKeySets == DOMAIN cache = DictKeys(access_times)

\* C24 witness: a set evicted one key and stored another, and a key older
\* than the stored one is still cached
EvictedAndStored ==
    /\ last.op = "set"
    /\ last.evicted # None
    /\ last.evicted # GenerateKey(last.arg)
    /\ Cardinality(DOMAIN cache) = 2

\* C23: however the statements of two set calls interleave, neither raises
SetNeverRaises == \A t \in Threads : setters[t].pc # "raised"

\* C25: end_session returns the session and removes it only when the id is
\* active, which no id is once it has been ended; for any other id it returns
\* None and leaves active_sessions as it is
SessionEndedOnce ==
    [][(last'.op = "end_session") =>
         IF last'.arg \in DOMAIN active_sessions
         THEN /\ last'.hit
              /\ last'.ret.id = last'.arg
              /\ DOMAIN active_sessions' = DOMAIN active_sessions \ {last'.arg}
              /\ \A i \in DOMAIN ended_log : ended_log[i] # last'.arg
         ELSE /\ ~last'.hit
              /\ active_sessions' = active_sessions]_vars

\* C25 witness: an id that had been ended was ended again, with other
\* sessions active, and None came back
EndedAgainReturnsNone ==
    /\ last.op = "end_session"
    /\ ~last.hit
    /\ \E i \in DOMAIN ended_log : ended_log[i] = last.arg
    /\ DOMAIN active_sessions # {}

\* the calls of all queues, as a set of records
AllCalls ==
    UNION {{queues[b][i] : i \in DOMAIN queues[b]} : b \in DOMAIN queues}

\* c is ahead of d: a higher priority, or the same and added earlier
Ahead(c, d) ==
    \/ c.priority > d.priority
    \/ c.priority = d.priority /\ c.id < d.id

\* C26: every business's queue is in order of non-increasing priority, and
\* calls of equal priority are in the order they were added
QueueOrdered ==
    \A b \in DOMAIN queues :
        \A i, j \in DOMAIN queues[b] :
            i < j => Ahead(queues[b][i], queues[b][j])

\* C26 witness: a call of a higher priority was added behind two calls of equal
\* priority, one of them connected and the other abandoned by then
OrderedAfterMixedOps ==
    \E b \in DOMAIN queues :
        /\ Len(queues[b]) = 3
        /\ queues[b][1].id = 3 /\ queues[b][2].id = 1 /\ queues[b][3].id = 2
        /\ queues[b][2].priority = queues[b][3].priority
        /\ queues[b][2].status = "connected"
        /\ queues[b][3].status = "abandoned"

\* C27: get_next(business) returns the waiting call of that business that is
\* ahead of its other waiting calls and marks it connected, changing nothing
\* else; with no waiting call it returns None and changes nothing
GetNextHandsOutFirst ==
    [][(last'.op = "get_next") =>
         LET b == last'.arg
             W == {c \in AllCalls : c.business_id = b /\ c.status = "waiting"}
         IN IF W # {}
            THEN /\ last'.hit
                 /\ last'.ret.business_id = b
                 /\ last'.ret.status = "connected"
                 /\ \E c \in W :
                        /\ c.id = last'.ret.id
                        /\ \A d \in W \ {c} : Ahead(c, d)
                        /\ AllCalls' = (AllCalls \ {c}) \cup
                                           {[c EXCEPT !.status = "connected"]}
                 /\ DOMAIN queues' = DOMAIN queues
                 /\ \A x \in DOMAIN queues :
                        /\ Len(queues'[x]) = Len(queues[x])
                        /\ x # b => queues'[x] = queues[x]
            ELSE /\ ~last'.hit
                 /\ queues' = queues]_vars

\* C27 witness: get_next returned the second call of its queue, the first one
\* being connected already, while another business had a waiting call of a
\* higher priority
SecondCallHandedOut ==
    /\ last.op = "get_next"
    /\ last.hit
    /\ last.ret.queue_position = 2
    /\ \E c \in AllCalls :
           /\ c.business_id # last.arg
           /\ c.status = "waiting"
           /\ c.priority > last.ret.priority

\* C28: the status of a queued call changes only from waiting, to connected or
\* to abandoned
StatusOnlyLeavesWaiting ==
    [][\A c \in AllCalls : \A d \in AllCalls' :
           (c.id = d.id /\ c.status # d.status) =>
               /\ c.status = "waiting"
               /\ d.status \in {"connected", "abandoned"}]_vars

\* C29: a handle_message for a call that end_call has ended returns the reply
\* that the call session has ended and leaves the transcripts as they are
EndedCallIsOver ==
    [][(last'.op = "handle_message" /\ last'.val \in ended_calls) =>
           /\ last'.ret = EndedReply
           /\ active_calls' = active_calls]_vars

\* C30: every id in the human queue is there once and is the id of a session
\* whose status is waiting
HumanQueueSound ==
    \A i \in DOMAIN chat_queue :
        /\ \A j \in DOMAIN chat_queue : chat_queue[j] = chat_queue[i] => j = i
        /\ chat_sessions[chat_queue[i]].status = "waiting"

\* the last part of C30 by itself: no session whose status is ended is in the
\* human queue
NoEndedInQueue ==
    \A i \in DOMAIN chat_queue :
        chat_sessions[chat_queue[i]].status # "ended"

====
